---------------------------- MODULE Spec2Model ----------------------------
(***************************************************************************)
(* Model of skfuzzy/control/fuzzyvariable.py: the FuzzyVariable class, its *)
(* membership-function registry (an OrderedDict), the indexed read and     *)
(* write protocol (__getitem__ / __setitem__) and automf.                  *)
(*                                                                         *)
(* Numbers are exact rationals <<n, d>> in lowest terms with d > 0 (the    *)
(* code uses floating point; no property below depends on rounding).       *)
(* An array-like value is a record [kind, data]: kind tells a NumPy array  *)
(* from a plain Python list, data is the sequence of its elements.         *)
(* A Python exception or return value is a record [kind, type, msg]; a     *)
(* message is the sequence of the pieces the code concatenates.            *)
(* The code is Python 2 (iterkeys, iteritems) and is read as such.         *)
(* The attributes connections and _id are never read by the modelled       *)
(* methods and are left out; the plotting helper is not modelled.          *)
(***************************************************************************)
EXTENDS Integers, Sequences, FiniteSets, TLC

VARIABLES universe, label, name, mf, active, output, op, args, result

vars == <<universe, label, name, mf, active, output, op, args, result>>

(* ------------------------------ bounds -------------------------------- *)

\* Longest universe: the universes are np.arange(n) for n in 0..MaxLen.
MaxLen == 3

(* ------------------------- Python / NumPy values ---------------------- *)

None == "None"

\* What self.__name__ evaluates to on an instance that never assigned it:
\* the attribute lookup raises AttributeError.
NoName == "<no __name__>"

Abs(i) == IF i < 0 THEN -i ELSE i

RECURSIVE GCD(_, _)
GCD(a, b) == IF b = 0 THEN a ELSE GCD(b, a % b)

\* The rational n/d in lowest terms, d # 0.
Frac(n, d) ==
    LET g == GCD(Abs(n), Abs(d))
        s == IF d < 0 THEN -1 ELSE 1
    IN  <<(s * n) \div g, (s * d) \div g>>

RAdd(p, q) == Frac(p[1] * q[2] + q[1] * p[2], p[2] * q[2])
RSub(p, q) == Frac(p[1] * q[2] - q[1] * p[2], p[2] * q[2])
RMul(p, q) == Frac(p[1] * q[1], p[2] * q[2])
RDiv(p, q) == Frac(p[1] * q[2], p[2] * q[1])
RLt(p, q) == p[1] * q[2] < q[1] * p[2]
RLe(p, q) == p[1] * q[2] <= q[1] * p[2]

Range(s) == {s[i] : i \in DOMAIN s}

ndarray(data) == [kind |-> "ndarray", data |-> data]
list(data) == [kind |-> "list", data |-> data]

\* np.asarray(item): an ndarray with the elements of item (an ndarray is
\* returned as it is, a list is converted).
asarray(item) == ndarray(item.data)

\* ndarray.size of a 1-dimensional array.
size(arr) == Len(arr.data)

\* universe.min() and universe.max() of a non-empty array.
amin(arr) == CHOOSE x \in Range(arr.data) : \A y \in Range(arr.data) : RLe(x, y)
amax(arr) == CHOOSE x \in Range(arr.data) : \A y \in Range(arr.data) : RLe(y, x)

\* np.linspace(start, stop, num) for num >= 2: num evenly spaced points.
linspace(start, stop, num) ==
    [i \in 1..num |->
        RAdd(start, RMul(Frac(i - 1, 1), RDiv(RSub(stop, start), Frac(num - 1, 1))))]

\* Python's s[start:stop:step] with 0-based non-negative indices, step > 0.
Slice(s, start, stop, step) ==
    LET hi == IF stop < Len(s) THEN stop ELSE Len(s)
        n  == IF hi <= start THEN 0 ELSE (hi - start + step - 1) \div step
    IN  [i \in 1..n |-> s[start + (i - 1) * step + 1]]

\* Python's s[::-1].
Reverse(s) == [i \in 1..Len(s) |-> s[Len(s) + 1 - i]]

\* str.lower() on the variable_type strings of the model.
Lower(s) == IF s = "Quality" THEN "quality" ELSE s

(* ----------------------------- OrderedDict ---------------------------- *)
\* An OrderedDict is the sequence of its <<key, value>> items in insertion
\* order, keys unique.

Keys(m) == [i \in DOMAIN m |-> m[i][1]]
Has(m, key) == \E i \in DOMAIN m : m[i][1] = key
Get(m, key) == m[CHOOSE i \in DOMAIN m : m[i][1] = key][2]

\* m[key] = value: an existing key keeps its position, a new key is appended.
odict_set(m, key, value) ==
    IF Has(m, key)
    THEN [i \in DOMAIN m |-> IF m[i][1] = key THEN <<key, value>> ELSE m[i]]
    ELSE Append(m, <<key, value>>)

(* -------------------------------- trimf ------------------------------- *)

\* membership.trimf(x, abc) at one point x: triangular membership with
\* breakpoints a <= b <= c.
trimf_at(x, a, b, c) ==
    IF x = b THEN Frac(1, 1)
    ELSE IF RLt(a, x) /\ RLt(x, b) THEN RDiv(RSub(x, a), RSub(b, a))
    ELSE IF RLt(b, x) /\ RLt(x, c) THEN RDiv(RSub(c, x), RSub(c, b))
    ELSE Frac(0, 1)

trimf(x, abc) ==
    ndarray([i \in 1..size(x) |-> trimf_at(x.data[i], abc[1], abc[2], abc[3])])

(* ------------------------------- inputs ------------------------------- *)

\* The universes a variable is built on: np.arange(n), n in 0..MaxLen.
Universes == {ndarray([i \in 1..n |-> Frac(i - 1, 1)]) : n \in 0..MaxLen}

\* The classes built on FuzzyVariable assign __name__; a bare FuzzyVariable
\* has none.
Names == {"Antecedent", "Consequent", NoName}

WriteLabels == {"low", "average"}
ReadLabels == {"low", "average"}
Numbers == {3, 4, 5, 7}
VariableTypes == {"quality", "Quality", "quant"}

(* --------------------------- results of a call ------------------------ *)

Returned(type) == [kind |-> "return", type |-> type, msg |-> <<>>]
ReturnedError(type, msg) == [kind |-> "return", type |-> type, msg |-> msg]
Raised(type, msg) == [kind |-> "raise", type |-> type, msg |-> msg]

\* Evaluating self.__name__ or list.size fails with this error.
NoAttribute(attr) == Raised("AttributeError", <<"no attribute '", attr, "'">>)

(* ------------------------------ __init__ ------------------------------ *)

Init ==
    /\ universe \in Universes
    /\ label = "service"
    /\ name \in Names
    /\ active = None
    /\ mf = <<>>
    /\ output = None
    /\ op = "__init__"
    /\ args = [universe |-> universe]
    /\ result = Returned("None")

(* ----------------------------- __getitem__ ---------------------------- *)

\* Faulty variant: the last-but-one label is not followed by ", or ".
getitem_options_without_or(keys) ==
    LET i0 == Len(keys) - 1
        piece(i) == IF i = i0 THEN <<"'", keys[i + 1], "'.">>
                    ELSE <<"'", keys[i + 1], "'; ">>
        F[n \in 0..Len(keys)] == IF n = 0 THEN <<>> ELSE F[n - 1] \o piece(n - 1)
    IN  F[Len(keys)]

\* The list of available labels built by the loop of __getitem__.
getitem_options(keys) ==
    LET i0 == Len(keys) - 1
        i1 == Len(keys) - 2
        piece(i) == IF i = i1 THEN <<"'", keys[i + 1], "', or ">>
                    ELSE IF i = i0 THEN <<"'", keys[i + 1], "'.">>
                    ELSE <<"'", keys[i + 1], "'; ">>
        F[n \in 0..Len(keys)] == IF n = 0 THEN <<>> ELSE F[n - 1] \o piece(n - 1)
    IN  F[Len(keys)]

getitem_message(key, keys) ==
    <<"Membership function '", key, "' does not exist for ", name, " ", label,
      ".\nAvailable options: ">> \o getitem_options(keys)

\* Faulty variant: the key is made active before it is looked up.
getitem_activate_on_miss(key) ==
    /\ active' = key
    /\ result' = IF Has(mf, key) THEN Returned("self")
                 ELSE IF name = NoName THEN NoAttribute("__name__")
                 ELSE Raised("ValueError", getitem_message(key, Keys(mf)))
    /\ op' = "__getitem__"
    /\ args' = [key |-> key]
    /\ UNCHANGED <<universe, label, name, mf, output>>

\* Faulty variant: the key is looked up but never made active.
getitem_no_activate(key) ==
    /\ result' = IF Has(mf, key) THEN Returned("self")
                 ELSE IF name = NoName THEN NoAttribute("__name__")
                 ELSE Raised("ValueError", getitem_message(key, Keys(mf)))
    /\ op' = "__getitem__"
    /\ args' = [key |-> key]
    /\ UNCHANGED <<universe, label, name, mf, output, active>>

getitem(key) ==
    /\ IF Has(mf, key)
       THEN /\ active' = key
            /\ result' = Returned("self")
       ELSE /\ active' = active
            /\ result' = IF name = NoName
                         THEN NoAttribute("__name__")
                         ELSE Raised("ValueError", getitem_message(key, Keys(mf)))
    /\ op' = "__getitem__"
    /\ args' = [key |-> key]
    /\ UNCHANGED <<universe, label, name, mf, output>>

(* ----------------------------- __setitem__ ---------------------------- *)

\* Faulty variant: no size test.
setitem_accepts_any(item, u) == TRUE

\* The size test of __setitem__ on mf = np.asarray(item).
setitem_accepts(item, u) == size(asarray(item)) = size(u)

\* The exception of a rejected write: formatting the message reads
\* item.size, which a plain list does not have.
setitem_error(key, item, u) ==
    IF item.kind = "ndarray"
    THEN Raised("ValueError",
                <<"New membership function ", key,
                  " must be equivalent in length to the universe variable.\nExpected ",
                  ToString(size(u)), ", got ", ToString(size(item)), ".">>)
    ELSE NoAttribute("size")

\* The registry after self.mf[key] = item: the item itself is stored.
setitem_store(m, key, item) == odict_set(m, key, item)

setitem(key, item) ==
    /\ IF setitem_accepts(item, universe)
       THEN /\ mf' = setitem_store(mf, key, item)
            /\ result' = Returned("None")
       ELSE /\ mf' = mf
            /\ result' = setitem_error(key, item, universe)
    /\ op' = "__setitem__"
    /\ args' = [key |-> key, item |-> item]
    /\ UNCHANGED <<universe, label, name, active, output>>

(* -------------------------------- automf ------------------------------ *)

quality_names ==
    <<"dismal", "poor", "mediocre", "average", "decent", "good", "excellent">>

quant_names ==
    <<"lowest", "lower", "low", "average", "high", "higher", "highest">>

\* Faulty variant: the slices start at the first name.
automf_names_from_first(number, variable_type, invert) ==
    LET n0 == IF Lower(variable_type) = "quality" THEN quality_names ELSE quant_names
        n1 == IF number = 3 THEN Slice(n0, 0, 6, 2) ELSE n0
        n2 == IF number = 5 THEN Slice(n1, 0, 5, 1) ELSE n1
    IN  IF invert THEN Reverse(n2) ELSE n2

\* The names automf assigns, in order.
automf_names(number, variable_type, invert) ==
    LET n0 == IF Lower(variable_type) = "quality" THEN quality_names ELSE quant_names
        n1 == IF number = 3 THEN Slice(n0, 1, 6, 2) ELSE n0
        n2 == IF number = 5 THEN Slice(n1, 1, 6, 1) ELSE n1
    IN  IF invert THEN Reverse(n2) ELSE n2

\* Faulty variant: no test of number.
automf_supports_any(number) == TRUE

\* The test that guards "return ValueError(...)".
automf_supported(number) == ~(number # 3 /\ number # 5 /\ number # 7)

\* The breakpoints [c - w / 2, c, c + w / 2] of every partition.
automf_abcs(u, number) ==
    LET lo == amin(u)
        hi == amax(u)
        universe_range == RSub(hi, lo)
        w == RDiv(universe_range, RDiv(Frac(number - 1, 1), Frac(2, 1)))
        centers == linspace(lo, hi, number)
        half == RDiv(w, Frac(2, 1))
    IN  [i \in 1..number |-> <<RSub(centers[i], half), centers[i], RAdd(centers[i], half)>>]

\* The membership functions trimf(self.universe, abc), one per partition.
automf_mfs(u, number) ==
    LET abcs == automf_abcs(u, number)
    IN  [k \in 1..number |-> trimf(u, abcs[k])]

\* Names and membership functions depend on the arguments and the universe
\* alone: both are tabulated over the inputs of the model.
names_of ==
    [number \in Numbers, variable_type \in VariableTypes, invert \in BOOLEAN |->
        automf_names(number, variable_type, invert)]

mfs_of ==
    [u \in Universes, number \in Numbers |->
        IF size(u) = 0 THEN <<>> ELSE automf_mfs(u, number)]

\* Faulty variant: the registry is not cleared.
automf_keep(m) == m

\* "Clear existing membership functions, if any".
automf_clear(m) == <<>>

\* The loop "for name, abc in zip(names, abcs): self[name] = trimf(...)":
\* zip stops at the shorter list and every assignment goes through
\* __setitem__, so the loop ends at the first array the size test rejects.
\* automf_rejected is the index of that array, 0 when there is none.
automf_rejected(names, mfs, u) ==
    LET n == IF Len(names) < Len(mfs) THEN Len(names) ELSE Len(mfs)
        bad == {k \in 1..n : ~setitem_accepts(mfs[k], u)}
    IN  IF bad = {} THEN 0 ELSE CHOOSE k \in bad : \A j \in bad : k <= j

automf_repopulate(m, names, mfs, u) ==
    LET n == IF Len(names) < Len(mfs) THEN Len(names) ELSE Len(mfs)
        bad == automf_rejected(names, mfs, u)
        stored == IF bad = 0 THEN n ELSE bad - 1
        F[k \in 0..stored] ==
            IF k = 0 THEN m
            ELSE setitem_store(F[k - 1], names[k], mfs[k])
    IN  F[stored]

automf(number, variable_type, invert) ==
    /\ op' = "automf"
    /\ args' = [number |-> number, variable_type |-> variable_type, invert |-> invert]
    /\ UNCHANGED <<universe, label, name, active>>
    /\ IF ~automf_supported(number)
       THEN /\ result' = ReturnedError("ValueError",
                                       <<"Only number = 3, 5, or 7 supported.">>)
            /\ UNCHANGED <<mf, output>>
       ELSE IF size(universe) = 0
       THEN \* universe.min() of an empty array
            /\ result' = Raised("ValueError", <<"zero-size array to reduction operation">>)
            /\ UNCHANGED <<mf, output>>
       ELSE IF name = NoName
       THEN \* the registry is cleared, then self.__name__ fails
            /\ mf' = automf_clear(mf)
            /\ result' = NoAttribute("__name__")
            /\ UNCHANGED output
       ELSE LET names == names_of[number, variable_type, invert]
                mfs == mfs_of[universe, number]
                bad == automf_rejected(names, mfs, universe)
            IN  /\ mf' = automf_repopulate(automf_clear(mf), names, mfs, universe)
                /\ output' = IF name = "Antecedent" THEN "OrderedDict()" ELSE None
                /\ result' = IF bad = 0 THEN Returned("None")
                             ELSE setitem_error(names[bad], mfs[bad], universe)

(* -------------------------------- calls ------------------------------- *)

Fill(n, v) == [i \in 1..n |-> Frac(v, 1)]

\* Array-likes a caller may assign: arrays and lists of the universe's
\* length, and of one element more.
Items ==
    LET n == size(universe)
    IN  {ndarray(Fill(n, 0)), ndarray(Fill(n, 1)), list(Fill(n, 0)),
         ndarray(Fill(n + 1, 0)), list(Fill(n + 1, 0))}

Read == \E key \in ReadLabels : getitem(key)
Write == \E key \in WriteLabels, item \in Items : setitem(key, item)
Automf == \E number \in Numbers, variable_type \in VariableTypes, invert \in BOOLEAN :
              automf(number, variable_type, invert)

Next == Read \/ Write \/ Automf

Spec == Init /\ [][Next]_vars

(* ------------------------------ properties --------------------------- *)

Supported == {3, 5, 7}

IsAutomf == op = "automf"
IsRead == op = "__getitem__"
IsWrite == op = "__setitem__"
Succeeded == result.kind = "return" /\ result.type \in {"None", "self"}

\* C1: automf with a number other than 3, 5 or 7 fails by raising an
\* invalid-argument error (ValueError); it never completes normally with an
\* error object as its return value.
C1_InvalidNumberRaises ==
    (IsAutomf /\ args.number \notin Supported)
        => (result.kind = "raise" /\ result.type = "ValueError")

\* C2: an automf call with a number outside {3, 5, 7} leaves the registry
\* exactly as it was: the same labels, in the same order, with the same arrays.
C2_InvalidNumberKeepsRegistry ==
    [][(op' = "automf" /\ args'.number \notin Supported) => mf' = mf]_vars

C2_Witness ==
    /\ IsAutomf /\ args.number \notin Supported
    /\ \E i \in DOMAIN mf : mf[i][1] = "low"
    /\ Len(mf) >= 2

\* C3: every membership function in the registry has exactly as many
\* elements as the universe.
C3_RegisteredSizes ==
    \A i \in DOMAIN mf : Len(mf[i][2].data) = Len(universe.data)

C3_Witness ==
    /\ Len(universe.data) = MaxLen
    /\ Len(mf) >= 4
    /\ \E i \in DOMAIN mf : mf[i][2].kind = "list"
    /\ IsWrite /\ ~Succeeded

\* C4: after a successful automf(number, ...), whatever the registry held
\* before, it holds exactly number entries, all generated by this call, and
\* "average" is the entry in the middle of the registry order.
C4_AutomfReplaces ==
    (IsAutomf /\ args.number \in Supported /\ Succeeded) =>
        /\ Len(mf) = args.number
        /\ \A i \in DOMAIN mf : mf[i][2] = mfs_of[universe, args.number][i]
        /\ \A i, j \in DOMAIN mf : mf[i][1] = mf[j][1] => i = j
        /\ mf[(args.number + 1) \div 2][1] = "average"
        /\ \A i \in DOMAIN mf : mf[i][1] = "average" => i = (args.number + 1) \div 2

\* A label selected before the call ("low", assigned by hand) is gone.
C4_Witness ==
    /\ IsAutomf /\ args.number \in Supported /\ Succeeded
    /\ active = "low"
    /\ \A i \in DOMAIN mf : mf[i][1] # "low"

\* The names the rule of C5 selects, written out.
C5_Vocabulary(variable_type) ==
    IF variable_type \in {"quality", "Quality"}
    THEN <<"dismal", "poor", "mediocre", "average", "decent", "good", "excellent">>
    ELSE <<"lowest", "lower", "low", "average", "high", "higher", "highest">>

C5_Selected(number, variable_type) ==
    LET v == C5_Vocabulary(variable_type)
    IN  CASE number = 3 -> <<v[2], v[4], v[6]>>
          [] number = 5 -> <<v[2], v[3], v[4], v[5], v[6]>>
          [] number = 7 -> v

\* The i-th center counted from the universe minimum (universes are sorted).
C5_Center(i, number) ==
    LET lo == universe.data[1]
        hi == universe.data[Len(universe.data)]
    IN  Frac(lo[1] * hi[2] * (number - i) + hi[1] * lo[2] * (i - 1),
             lo[2] * hi[2] * (number - 1))

\* The triangle centered on the i-th center, of half-width (max - min) / (number - 1).
C5_Triangle(i, number) ==
    LET lo == universe.data[1]
        hi == universe.data[Len(universe.data)]
        h == Frac(hi[1] * lo[2] - lo[1] * hi[2], lo[2] * hi[2] * (number - 1))
        c == C5_Center(i, number)
    IN  <<Frac(c[1] * h[2] - h[1] * c[2], c[2] * h[2]), c,
          Frac(c[1] * h[2] + h[1] * c[2], c[2] * h[2])>>

\* C5: the labels a successful automf inserts are the 2nd, 4th and 6th names
\* of the vocabulary for number 3, the 2nd to 6th for number 5, all seven for
\* number 7, reversed when invert is true; the i-th membership function is the
\* one centered on the i-th center from the universe minimum whatever invert
\* is, so with invert it receives the name at the mirrored position.
C5_AutomfLabels ==
    (IsAutomf /\ args.number \in Supported /\ Succeeded) =>
        LET sel == C5_Selected(args.number, args.variable_type)
            n == args.number
        IN  /\ Len(mf) = n
            /\ \A i \in 1..n :
                 mf[i][1] = IF args.invert THEN sel[n + 1 - i] ELSE sel[i]
            /\ \A i \in 1..n : mf[i][2] = trimf(universe, C5_Triangle(i, n))

C5_Witness ==
    /\ IsAutomf /\ args.number = 3 /\ args.invert /\ Succeeded
    /\ args.variable_type = "Quality"
    /\ Len(universe.data) = 3
    /\ Keys(mf) = <<"good", "average", "poor">>
    /\ mf[1][2].data = <<<<1, 1>>, <<0, 1>>, <<0, 1>>>>

\* C6: an indexed read of a registered label sets the active pointer to that
\* label, returns the variable itself and leaves the registry, the universe
\* and the output slot unchanged.
C6_ReadActivates ==
    [][(op' = "__getitem__" /\ Has(mf, args'.key)) =>
          /\ active' = args'.key
          /\ result' = Returned("self")
          /\ mf' = mf /\ universe' = universe /\ output' = output]_vars

\* A read of "average" after "low" had been selected, on an Antecedent whose
\* output slot automf has reset.
C6_Witness ==
    /\ IsRead /\ Succeeded /\ active = args.key
    /\ args.key = "average" /\ Has(mf, "low") /\ Has(mf, "average")
    /\ output = "OrderedDict()"

LookupErrors == {"LookupError", "KeyError", "IndexError"}

\* The enumeration of C7: every label once, in order, the last one preceded
\* by "or" and closed by a period.
C7_Enumeration(keys) ==
    LET n == Len(keys)
    IN  [p \in 1..(3 * n) |->
           LET i == (p + 2) \div 3
           IN  CASE p % 3 = 1 -> "'"
                 [] p % 3 = 2 -> keys[i]
                 [] p % 3 = 0 -> IF i = n THEN "'." ELSE IF i = n - 1 THEN "', or " ELSE "'; "]

C7_Options == SubSeq(result.msg, 8, Len(result.msg))

C8_RejectedWrite ==
    [][(op' = "__setitem__" /\ Len(args'.item.data) # Len(universe.data)) =>
          /\ result'.kind = "raise"
          /\ result'.type = "ValueError"
          /\ \E p \in DOMAIN result'.msg : result'.msg[p] = ToString(Len(universe.data))
          /\ \E p \in DOMAIN result'.msg : result'.msg[p] = ToString(Len(args'.item.data))
          /\ mf' = mf /\ active' = active]_vars

\* C9: after a successful write variable[label] = arr the registry maps label
\* to the numeric-array form of arr; a new label becomes the last entry, a
\* registered one keeps its position; every other entry is unchanged and the
\* number of entries grows by one only for a new label.
C9_WriteStores ==
    [][(op' = "__setitem__" /\ result' = Returned("None")) =>
          LET key == args'.key
          IN  /\ Has(mf', key)
              /\ Get(mf', key) = asarray(args'.item)
              /\ Get(mf', key).data = args'.item.data
              /\ IF Has(mf, key)
                 THEN /\ Len(mf') = Len(mf)
                      /\ Keys(mf') = Keys(mf)
                 ELSE /\ Len(mf') = Len(mf) + 1
                      /\ mf'[Len(mf')][1] = key
              /\ \A i \in DOMAIN mf : mf[i][1] # key => mf'[i] = mf[i]]_vars

Registered(a, m) == a = None \/ Has(m, a)

\* C10 as stated: the active pointer is unset or a label of the registry.
C10_ActiveRegistered == Registered(active, mf)

\* C10 amended: the active pointer changes only in a successful indexed read,
\* to the label read, which is then in the registry; it stops naming a
\* registered label only when automf replaces (or clears) the registry, and
\* automf leaves the pointer as it was.
C10_ActiveSetByReadOnly ==
    [][/\ active' # active =>
            (op' = "__getitem__" /\ active' = args'.key /\ Has(mf', active'))
       /\ (Registered(active, mf) /\ ~Registered(active', mf')) =>
            (op' = "automf" /\ active' = active)]_vars

C10_Witness ==
    /\ IsAutomf /\ args.number \in Supported
    /\ active = "low" /\ ~Has(mf, "low")
    /\ Len(mf) = args.number

=============================================================================
